---- MODULE Spec2Model ----
(***************************************************************************)
(* Model of synapse/handlers/room_list.py: the public room directory       *)
(* (RoomListHandler) and its pagination cursor (RoomListNextBatch).        *)
(*                                                                         *)
(* Python values are represented as follows.                               *)
(*   None / absent dict entry : the empty sequence <<>>                    *)
(*   an optional integer n    : <<n>>                                      *)
(*   a str of base64 text     : the sequence of its characters' indices in *)
(*                              the base64 alphabet (A=0 .. Z=25, a=26 ..) *)
(*   a str of bytes           : the sequence of its bytes (0..255)         *)
(*   a room id                : an integer, ordered as room id strings are *)
(***************************************************************************)
EXTENDS Integers, Sequences, FiniteSets, TLC

\* ------------------------------------------------------------------ bounds
NumRooms == 3
MaxMembers == 2
MaxChanges == 1
MaxLimit == 1
MaxOffset == 2
NumCalls == 2
NumSlots == 4
NumListed == 12
CodecSpread == 1
MaxPage == 2
MaxDeep == 4

Rooms == 1..NumRooms
None == <<>>

\* Python truthiness of an optional integer (None and 0 are falsy).
Truthy(x) == x # None /\ x[1] # 0

Min(a, b) == IF a < b THEN a ELSE b
Max(a, b) == IF a > b THEN a ELSE b

\* ------------------------------------------------------- msgpack / base64
\* msgpack values: [t |-> "int", v |-> n], [t |-> "bool", v |-> b],
\* [t |-> "nil"], [t |-> "str", v |-> <<char codes>>], and a map as
\* [t |-> "map", v |-> <<key, val, key, val, ...>>] over packed bytes.
Ord_s == 115
Ord_n == 110
Ord_d == 100

\* msgpack's encoding of an integer in -128 .. 2^32 - 1: positive fixint,
\* uint 8, uint 16, uint 32, negative fixint, int 8.
PackInt(n) ==
    IF n >= 0 /\ n <= 127 THEN <<n>>
    ELSE IF n >= 128 /\ n <= 255 THEN <<204, n>>
    ELSE IF n >= 256 /\ n <= 65535 THEN <<205, n \div 256, n % 256>>
    ELSE IF n >= 65536
         THEN <<206, (n \div 16777216) % 256, (n \div 65536) % 256,
                (n \div 256) % 256, n % 256>>
    ELSE IF n < 0 /\ n >= -32 THEN <<256 + n>>
    ELSE <<208, 256 + n>>

PackBool(b) == IF b THEN <<195>> ELSE <<194>>

\* msgpack_dumps with the keys of stream_ordering and current_limit taken
\* for one another.
msgpack_dumps_SwapKeys(c) ==
    <<131>> \o <<161, Ord_n>> \o PackInt(c.stream_ordering)
            \o <<161, Ord_s>> \o PackInt(c.current_limit)
            \o <<161, Ord_d>> \o PackBool(c.direction_is_forward)

\* msgpack.dumps of {KEY_DICT[key]: val for key, val in self._asdict().items()}
msgpack_dumps(c) ==
    <<131>> \o <<161, Ord_s>> \o PackInt(c.stream_ordering)
            \o <<161, Ord_n>> \o PackInt(c.current_limit)
            \o <<161, Ord_d>> \o PackBool(c.direction_is_forward)

\* The i-th (1-based) sextet of the bit string of bytes bs, zero padded.
Sextet(bs, i) ==
    LET bit == 6 * (i - 1)
        b1  == bs[(bit \div 8) + 1]
        b2  == IF (bit \div 8) + 2 <= Len(bs) THEN bs[(bit \div 8) + 2] ELSE 0
        w   == b1 * 256 + b2
        sh  == 10 - (bit % 8)
    IN (w \div (2 ^ sh)) % 64

\* unpaddedbase64.encode_base64: base64 text without the trailing "=".
encode_base64(bs) ==
    [i \in 1..((Len(bs) * 8 + 5) \div 6) |-> Sextet(bs, i)]

\* The i-th (1-based) byte of the bit string of sextets cs.
Octet(cs, i) ==
    LET bit == 8 * (i - 1)
        c1  == cs[(bit \div 6) + 1]
        c2  == cs[(bit \div 6) + 2]
        c3  == IF (bit \div 6) + 3 <= Len(cs) THEN cs[(bit \div 6) + 3] ELSE 0
        w   == (c1 * 64 + c2) * 64 + c3
        sh  == 10 - (bit % 6)
    IN (w \div (2 ^ sh)) % 256

\* unpaddedbase64.decode_base64: fails (ok = FALSE) when the text cannot be
\* padded to a whole base64 quantum.
decode_base64(cs) ==
    IF Len(cs) % 4 = 1 THEN [ok |-> FALSE, bytes |-> <<>>]
    ELSE [ok |-> TRUE, bytes |-> [i \in 1..((Len(cs) * 6) \div 8) |-> Octet(cs, i)]]

\* Unpack one scalar starting at bs[i]: [ok, val, next].
UnpackScalar(bs, i) ==
    IF i > Len(bs) THEN [ok |-> FALSE, val |-> [t |-> "nil"], next |-> i]
    ELSE LET b == bs[i] IN
      IF b <= 127 THEN [ok |-> TRUE, val |-> [t |-> "int", v |-> b], next |-> i + 1]
      ELSE IF b >= 224 THEN [ok |-> TRUE, val |-> [t |-> "int", v |-> b - 256], next |-> i + 1]
      ELSE IF b = 192 THEN [ok |-> TRUE, val |-> [t |-> "nil"], next |-> i + 1]
      ELSE IF b = 194 THEN [ok |-> TRUE, val |-> [t |-> "bool", v |-> FALSE], next |-> i + 1]
      ELSE IF b = 195 THEN [ok |-> TRUE, val |-> [t |-> "bool", v |-> TRUE], next |-> i + 1]
      ELSE IF b = 204 THEN
        IF i + 1 <= Len(bs)
        THEN [ok |-> TRUE, val |-> [t |-> "int", v |-> bs[i + 1]], next |-> i + 2]
        ELSE [ok |-> FALSE, val |-> [t |-> "nil"], next |-> i]
      ELSE IF b = 205 THEN
        IF i + 2 <= Len(bs)
        THEN [ok |-> TRUE, val |-> [t |-> "int", v |-> bs[i + 1] * 256 + bs[i + 2]],
              next |-> i + 3]
        ELSE [ok |-> FALSE, val |-> [t |-> "nil"], next |-> i]
      ELSE IF b = 206 THEN
        IF i + 4 <= Len(bs)
        THEN [ok |-> TRUE,
              val |-> [t |-> "int",
                       v |-> ((bs[i + 1] * 256 + bs[i + 2]) * 256 + bs[i + 3]) * 256
                             + bs[i + 4]],
              next |-> i + 5]
        ELSE [ok |-> FALSE, val |-> [t |-> "nil"], next |-> i]
      ELSE IF b = 208 THEN
        IF i + 1 <= Len(bs)
        THEN [ok |-> TRUE,
              val |-> [t |-> "int",
                       v |-> IF bs[i + 1] >= 128 THEN bs[i + 1] - 256 ELSE bs[i + 1]],
              next |-> i + 2]
        ELSE [ok |-> FALSE, val |-> [t |-> "nil"], next |-> i]
      ELSE IF b >= 160 /\ b <= 191 THEN
        IF i + (b - 160) <= Len(bs)
        THEN [ok |-> TRUE,
              val |-> [t |-> "str", v |-> SubSeq(bs, i + 1, i + (b - 160))],
              next |-> i + 1 + (b - 160)]
        ELSE [ok |-> FALSE, val |-> [t |-> "nil"], next |-> i]
      ELSE [ok |-> FALSE, val |-> [t |-> "nil"], next |-> i]

\* Unpack k key/value pairs starting at bs[i]: [ok, items, next], items being
\* the sequence of <<key, val>> pairs in the order packed.
UnpackPairs(bs, i, k) ==
    LET Pairs[j \in 1..(Len(bs) + 1), n \in 0..k] ==
          IF n = 0 THEN [ok |-> TRUE, items |-> <<>>, next |-> j]
          ELSE LET key == UnpackScalar(bs, j) IN
            IF ~key.ok THEN [ok |-> FALSE, items |-> <<>>, next |-> j]
            ELSE LET val == UnpackScalar(bs, key.next) IN
              IF ~val.ok THEN [ok |-> FALSE, items |-> <<>>, next |-> j]
              ELSE LET rest == Pairs[val.next, n - 1] IN
                IF ~rest.ok THEN rest
                ELSE [ok |-> TRUE,
                      items |-> <<<<key.val, val.val>>>> \o rest.items,
                      next |-> rest.next]
    IN Pairs[i, k]

\* msgpack.loads: exactly one object, nothing after it (ExtraData otherwise).
\* [ok, ismap, items]
msgpack_loads(bs) ==
    IF Len(bs) = 0 THEN [ok |-> FALSE, ismap |-> FALSE, items |-> <<>>]
    ELSE IF bs[1] >= 128 /\ bs[1] <= 143 THEN
      LET r == UnpackPairs(bs, 2, bs[1] - 128) IN
        [ok |-> r.ok /\ r.next = Len(bs) + 1, ismap |-> TRUE, items |-> r.items]
    ELSE
      LET r == UnpackScalar(bs, 1) IN
        [ok |-> r.ok /\ r.next = Len(bs) + 1, ismap |-> FALSE, items |-> <<>>]

\* REVERSE_KEY_DICT: the short keys that name a field.
REVERSE_KEY_DICT == {<<Ord_s>>, <<Ord_n>>, <<Ord_d>>}

IsFieldKey(k) == k.t = "str" /\ k.v \in REVERSE_KEY_DICT

\* The value the dict built from items holds for short key ch (a later
\* entry of the same key replaces an earlier one).
RECURSIVE Lookup(_, _, _)
Lookup(items, ch, n) ==
    IF n = 0 THEN [t |-> "nil"]
    ELSE IF items[n][1].t = "str" /\ items[n][1].v = <<ch>> THEN items[n][2]
    ELSE Lookup(items, ch, n - 1)

HasKey(items, ch) ==
    \E n \in 1..Len(items) : items[n][1].t = "str" /\ items[n][1].v = <<ch>>

\* RoomListNextBatch.to_token
to_token(c) == encode_base64(msgpack_dumps(c))

\* RoomListNextBatch.from_token: [ok, cursor].  It raises (ok = FALSE) when
\* the base64 or msgpack text is broken, when the object is not a map
\* (no .items()), when a key is not in REVERSE_KEY_DICT (KeyError) and when
\* a field is missing (TypeError of the namedtuple constructor).
\* The bytes (raw) and the object unpacked from them (obj) are drawn from sets
\* of one element, which names each of them once it is computed.
from_token(token) ==
    CHOOSE result \in
      {LET good == /\ obj.ok /\ obj.ismap
                   /\ \A n \in 1..Len(obj.items) : IsFieldKey(obj.items[n][1])
                   /\ HasKey(obj.items, Ord_s)
                   /\ HasKey(obj.items, Ord_n)
                   /\ HasKey(obj.items, Ord_d)
       IN IF good
          THEN [ok |-> TRUE,
                cursor |-> [stream_ordering |-> Lookup(obj.items, Ord_s, Len(obj.items)).v,
                            current_limit |-> Lookup(obj.items, Ord_n, Len(obj.items)).v,
                            direction_is_forward |-> Lookup(obj.items, Ord_d, Len(obj.items)).v]]
          ELSE [ok |-> FALSE, cursor |-> None]
       : obj \in {IF raw.ok THEN msgpack_loads(raw.bytes)
                  ELSE [ok |-> FALSE, ismap |-> FALSE, items |-> <<>>]
                     : raw \in {decode_base64(token)}}} : TRUE

\* RoomListNextBatch.copy_and_replace(direction_is_forward=d)
copy_and_replace(c, d) == [c EXCEPT !.direction_is_forward = d]


\* ------------------------------------------------------------ the inputs
\* The literal "END": E=4, N=13, D=3 in the base64 alphabet.
END == <<4, 13, 3>>

Cursors ==
    [stream_ordering : 0..MaxChanges,
     current_limit : 0..MaxOffset,
     direction_is_forward : BOOLEAN]

ValidTokens == {to_token(c) : c \in Cursors}

\* Tokens that from_token rejects: text that is not base64 ("E"), a msgpack
\* integer instead of a map, a map without the "d" field, and a map with a
\* key "x" that names no field.
MalformedTokens ==
    {<<4>>,
     encode_base64(<<5>>),
     encode_base64(<<130, 161, Ord_s, 0, 161, Ord_n, 0>>),
     encode_base64(<<131, 161, Ord_s, 0, 161, Ord_n, 0, 161, 120, 195>>)}

Tokens == {None, END} \cup ValidTokens \cup MalformedTokens

\* Cursors whose integers lie around the values at which msgpack changes the
\* encoding of an integer: 0, 2^7, 2^8 and 2^16.
CodecInts ==
    {n \in UNION {(b - CodecSpread)..(b + CodecSpread) : b \in {0, 2^7, 2^8, 2^16}} :
        n >= 0}

CodecCursors ==
    [stream_ordering : CodecInts,
     current_limit : CodecInts,
     direction_is_forward : BOOLEAN]

Limits == {None} \cup {<<n>> : n \in 0..MaxLimit}

JoinRuleValues == {"none", "empty", "public", "invite"}

\* ------------------------------------------------------------- the state
VARIABLES
    public_room_ids,   \* store: rooms published in the directory (live)
    max_stream,        \* store: the current max stream ordering
    history,           \* store: per room, per stream position 0..max_stream,
                       \*   whether it has forward extremities and how many
                       \*   users are joined at them
    join_rule,         \* current state of each room: its join rules event
    toggles,           \* number of directory changes made so far
    comp,              \* the invocations of _get_public_room_list
    calls,             \* the invocations of get_local_public_room_list
    ncalls,            \* how many of them have been made
    response_cache     \* ResponseCache.pending_result_cache: key -> comp id

vars == <<public_room_ids, max_stream, history, join_rule, toggles,
          comp, calls, ncalls, response_cache>>

storeVars == <<public_room_ids, max_stream, history, join_rule, toggles>>

CallIds == 1..NumSlots

\* The version of the data the store holds: every change of the store
\* raises one of the two counters.
DataVersion == <<max_stream, toggles>>

\* ------------------------------------------------------ store (external)
\* store.get_forward_extremeties_for_room(room_id, stream_ordering): whether
\* the room has forward extremities as of that position.
get_forward_extremeties_for_room(r, p) ==
    history[r][Min(p, max_stream) + 1].ext

\* state_handler.get_current_user_in_room(room_id, latest_event_ids): the
\* number of users joined at the extremities read at position p.
get_current_user_in_room(r, p) ==
    history[r][Min(p, max_stream) + 1].joined

\* ------------------------------------------------------- sorting helpers
SetToSeq(S) ==
    LET Build[T \in SUBSET S] ==
            IF T = {} THEN <<>>
            ELSE LET m == CHOOSE a \in T : \A b \in T : a <= b
                 IN <<m>> \o Build[T \ {m}]
    IN Build[S]

Range(sq) == {sq[i] : i \in 1..Len(sq)}

Reverse(sq) == [i \in 1..Len(sq) |-> sq[Len(sq) + 1 - i]]

\* Python's tuple comparison of two (-num_joined_users, room_id) keys.
KeyLess(a, b) == a[1] < b[1] \/ (a[1] = b[1] /\ a[2] < b[2])

\* SortedRooms with the sort of line 99 left out: the rooms in the order of
\* their ids.
SortedRooms_Unsorted(order_value) == SetToSeq(DOMAIN order_value)

\* sorted(rooms_to_order_value.items(), key=lambda e: e[1]), then the room
\* ids of the entries (lines 99-100).
SortedRooms(order_value) ==
    LET Build[T \in SUBSET DOMAIN order_value] ==
            IF T = {} THEN <<>>
            ELSE LET m == CHOOSE a \in T :
                            \A b \in T \ {a} : KeyLess(order_value[a], order_value[b])
                 IN <<m>> \o Build[T \ {m}]
    IN Build[DOMAIN order_value]

ChunkKey(e) == <<0 - e.num_joined_members, e.room_id>>

\* list.sort(key=...) : a stable insertion of each entry in turn.
RECURSIVE InsertSorted(_, _)
InsertSorted(sq, e) ==
    IF sq = <<>> THEN <<e>>
    ELSE IF KeyLess(ChunkKey(e), ChunkKey(Head(sq))) THEN <<e>> \o sq
    ELSE <<Head(sq)>> \o InsertSorted(Tail(sq), e)

RECURSIVE SortChunk(_)
SortChunk(sq) ==
    IF sq = <<>> THEN <<>>
    ELSE InsertSorted(SortChunk(SubSeq(sq, 1, Len(sq) - 1)), sq[Len(sq)])

\* Python slices sq[n:] and sq[:n] for n >= 0.
SliceFrom(sq, n) == SubSeq(sq, Min(n, Len(sq)) + 1, Len(sq))
SliceTo(sq, n) == SubSeq(sq, 1, Min(n, Len(sq)))

\* ------------------------------------------- bounded fan-out (external)
\* FanOutLimit with one more worker allowed at a time.
FanOutLimit_OneMore == 10 + 1

\* The limit passed to concurrently_execute at lines 97 and 203.
FanOutLimit == 10

\* concurrently_execute(func, args, limit): limit loops each take the next
\* item of the one shared iterator, so the first `limit` items start at once
\* and the others wait in the iterator.
StartFanOut(items) ==
    [inflight |-> Range(SliceTo(items, FanOutLimit)),
     queue |-> SliceFrom(items, FanOutLimit)]

\* The loop whose worker for room r returned takes the next item, if any.
WorkerDone(rec, r) ==
    IF rec.queue = <<>>
    THEN [rec EXCEPT !.inflight = @ \ {r}]
    ELSE [rec EXCEPT !.inflight = (@ \ {r}) \cup {Head(rec.queue)},
                     !.queue = Tail(@)]

FanOutFinished(rec) == rec.inflight = {} /\ rec.ready = {} /\ rec.queue = <<>>

\* ----------------------------------------------- _get_public_room_list
\* A record holds the arguments and the local variables of one invocation.
\* Besides them it keeps what the properties below refer to: the token was
\* handed to from_token (decoded), the number of store and state handler
\* calls that have returned (store_calls), the number of reads of the max
\* stream ordering (read_max), the join rules event each worker saw
\* (join_rules), the entries in the order they were appended (appended),
\* the ranking before it is sliced (ranked), the version of the store's
\* data at the call and at the return (ver0, ver1) and the room whose
\* worker raised, if one did (failed_room).
NoResults == [chunk |-> <<>>, next_batch |-> None, prev_batch |-> None]

FreshComp ==
    [pc |-> "unused", limit |-> None, token |-> None, next_batch |-> None,
     room_ids |-> <<>>, current_stream_token |-> None,
     rooms_to_num_joined |-> <<>>, rooms_to_order_value |-> <<>>,
     inflight |-> {}, ready |-> {}, queue |-> <<>>,
     ranked |-> <<>>, sorted_rooms |-> <<>>, new_limit |-> None,
     join_rules |-> <<>>, appended |-> <<>>,
     chunk |-> <<>>, results |-> NoResults,
     store_calls |-> 0, read_max |-> 0, decoded |-> FALSE,
     ver0 |-> <<0, 0>>, ver1 |-> <<0, 0>>, failed_room |-> None]

\* DirectionSlice with the reverse() of line 107 left out.
DirectionSlice_NoReverse(ranked, next_batch) ==
    IF next_batch # None
    THEN IF next_batch[1].direction_is_forward
         THEN SliceFrom(ranked, next_batch[1].current_limit)
         ELSE SliceTo(ranked, next_batch[1].current_limit)
    ELSE ranked

\* DirectionSlice with lines 102-107 left out: the cursor is not applied.
DirectionSlice_IgnoreCursor(ranked, next_batch) == ranked

\* Lines 102-107: the slice of the ranked rooms the cursor points at.
DirectionSlice(ranked, next_batch) ==
    IF next_batch # None
    THEN IF next_batch[1].direction_is_forward
         THEN SliceFrom(ranked, next_batch[1].current_limit)
         ELSE Reverse(SliceTo(ranked, next_batch[1].current_limit))
    ELSE ranked

\* NewLimit with line 115 left out: the page size is not added to the
\* offset of the cursor.
NewLimit_NoOffset(sliced, limit, next_batch) ==
    IF Truthy(limit) /\ SliceFrom(sliced, limit[1]) # <<>>
    THEN IF next_batch # None /\ ~next_batch[1].direction_is_forward
         THEN <<Max(0, next_batch[1].current_limit - limit[1])>>
         ELSE <<limit[1]>>
    ELSE None

\* NewLimit with line 111 testing the page and not what follows it: a cursor
\* is issued whenever the slice holds a room.
NewLimit_WhenAny(sliced, limit, next_batch) ==
    IF Truthy(limit) /\ sliced # <<>>
    THEN IF next_batch # None
         THEN IF next_batch[1].direction_is_forward
              THEN <<limit[1] + next_batch[1].current_limit>>
              ELSE <<Max(0, next_batch[1].current_limit - limit[1])>>
         ELSE <<limit[1]>>
    ELSE None

\* NewLimit with the subtraction of line 117 left out: a backward cursor
\* keeps the offset of the request.
NewLimit_NoStep(sliced, limit, next_batch) ==
    IF Truthy(limit) /\ SliceFrom(sliced, limit[1]) # <<>>
    THEN IF next_batch # None
         THEN IF next_batch[1].direction_is_forward
              THEN <<limit[1] + next_batch[1].current_limit>>
              ELSE <<Max(0, next_batch[1].current_limit)>>
         ELSE <<limit[1]>>
    ELSE None

\* Lines 109-118: the offset of the cursor that continues the traversal.
NewLimit(sliced, limit, next_batch) ==
    IF Truthy(limit) /\ SliceFrom(sliced, limit[1]) # <<>>
    THEN IF next_batch # None
         THEN IF next_batch[1].direction_is_forward
              THEN <<limit[1] + next_batch[1].current_limit>>
              ELSE <<Max(0, next_batch[1].current_limit - limit[1])>>
         ELSE <<limit[1]>>
    ELSE None

\* Truncate with line 119 left out.
Truncate_Never(sliced, limit) == sliced

\* Line 119: the rooms of this page.
Truncate(sliced, limit) ==
    IF Truthy(limit) THEN SliceTo(sliced, limit[1]) ELSE sliced

\* BuildResults with the replacement of the direction at line 233 left out:
\* the next cursor of a backward request is the cursor of the request.
BuildResults_NoFlip(chunk, next_batch, new_limit, current_stream_token) ==
    IF next_batch = None \/ next_batch[1].direction_is_forward
    THEN [chunk |-> chunk,
          next_batch |->
              IF Truthy(new_limit)
              THEN to_token([stream_ordering |-> current_stream_token[1],
                             current_limit |-> new_limit[1],
                             direction_is_forward |-> TRUE])
              ELSE None,
          prev_batch |->
              IF next_batch # None
              THEN to_token(copy_and_replace(next_batch[1], FALSE))
              ELSE None]
    ELSE [chunk |-> chunk,
          prev_batch |->
              IF Truthy(new_limit)
              THEN to_token([stream_ordering |-> current_stream_token[1],
                             current_limit |-> new_limit[1],
                             direction_is_forward |-> FALSE])
              ELSE None,
          next_batch |->
              IF next_batch # None
              THEN to_token(next_batch[1])
              ELSE None]

\* BuildResults with the cursor that continues the traversal counting the
\* rooms of the chunk and not the rooms selected.
BuildResults_CountChunk(chunk, next_batch, new_limit, current_stream_token) ==
    IF next_batch = None \/ next_batch[1].direction_is_forward
    THEN [chunk |-> chunk,
          next_batch |->
              IF Truthy(new_limit)
              THEN to_token([stream_ordering |-> current_stream_token[1],
                             current_limit |->
                                 (IF next_batch = None THEN 0
                                  ELSE next_batch[1].current_limit) + Len(chunk),
                             direction_is_forward |-> TRUE])
              ELSE None,
          prev_batch |->
              IF next_batch # None
              THEN to_token(copy_and_replace(next_batch[1], FALSE))
              ELSE None]
    ELSE [chunk |-> chunk,
          prev_batch |->
              IF Truthy(new_limit)
              THEN to_token([stream_ordering |-> current_stream_token[1],
                             current_limit |->
                                 Max(0, next_batch[1].current_limit - Len(chunk)),
                             direction_is_forward |-> FALSE])
              ELSE None,
          next_batch |->
              IF next_batch # None
              THEN to_token(copy_and_replace(next_batch[1], TRUE))
              ELSE None]

\* Lines 207-236: the response, with its cursors as tokens.
BuildResults(chunk, next_batch, new_limit, current_stream_token) ==
    IF next_batch = None \/ next_batch[1].direction_is_forward
    THEN [chunk |-> chunk,
          next_batch |->
              IF Truthy(new_limit)
              THEN to_token([stream_ordering |-> current_stream_token[1],
                             current_limit |-> new_limit[1],
                             direction_is_forward |-> TRUE])
              ELSE None,
          prev_batch |->
              IF next_batch # None
              THEN to_token(copy_and_replace(next_batch[1], FALSE))
              ELSE None]
    ELSE [chunk |-> chunk,
          prev_batch |->
              IF Truthy(new_limit)
              THEN to_token([stream_ordering |-> current_stream_token[1],
                             current_limit |-> new_limit[1],
                             direction_is_forward |-> FALSE])
              ELSE None,
          next_batch |->
              IF next_batch # None
              THEN to_token(copy_and_replace(next_batch[1], TRUE))
              ELSE None]

\* FinalChunk with the sort of line 205 left out.
FinalChunk_Unsorted(chunk) == chunk

\* Line 205: chunk.sort(key=lambda e: (-e["num_joined_members"], e["room_id"]))
FinalChunk(chunk) == SortChunk(chunk)

\* Lines 205-236, run when the second fan-out has finished.
Finish(rec) ==
    [rec EXCEPT !.pc = "done",
                !.chunk = FinalChunk(rec.chunk),
                !.results = BuildResults(FinalChunk(rec.chunk), rec.next_batch,
                                         rec.new_limit, rec.current_stream_token),
                !.ver1 = DataVersion]

\* Lines 121-203: start handle_room over the selected rooms.
StartEnrich(rec) ==
    IF rec.sorted_rooms = <<>>
    THEN Finish(rec)
    ELSE [rec EXCEPT !.pc = "enrich",
                     !.inflight = StartFanOut(rec.sorted_rooms).inflight,
                     !.queue = StartFanOut(rec.sorted_rooms).queue]

\* Lines 99-119, run when the first fan-out has finished, up to the first
\* store call of the second one.
Select(rec) ==
    LET ranked == SortedRooms(rec.rooms_to_order_value)
        sliced == DirectionSlice(ranked, rec.next_batch)
    IN StartEnrich([rec EXCEPT
           !.ranked = ranked,
           !.new_limit = NewLimit(sliced, rec.limit, rec.next_batch),
           !.sorted_rooms = Truncate(sliced, rec.limit)])

\* Line 97: start get_order_for_room over room_ids.
StartRank(rec) ==
    IF rec.room_ids = <<>>
    THEN Select(rec)
    ELSE [rec EXCEPT !.pc = "rank",
                     !.inflight = StartFanOut(rec.room_ids).inflight,
                     !.queue = StartFanOut(rec.room_ids).queue]

\* Begin with the test for "END" at line 54 left out.
Begin_DecodeEND(limit, token) ==
    IF token # None
    THEN IF from_token(token).ok
         THEN [FreshComp EXCEPT !.pc = "ids", !.limit = limit, !.token = token,
                                !.decoded = TRUE,
                                !.next_batch = <<from_token(token).cursor>>,
                                !.ver0 = DataVersion, !.ver1 = DataVersion]
         ELSE [FreshComp EXCEPT !.pc = "failed", !.limit = limit, !.token = token,
                                !.decoded = TRUE,
                                !.ver0 = DataVersion, !.ver1 = DataVersion]
    ELSE [FreshComp EXCEPT !.pc = "ids", !.limit = limit, !.token = token,
                           !.ver0 = DataVersion, !.ver1 = DataVersion]

\* Begin with a token that does not decode taken for no token.
Begin_IgnoreBadToken(limit, token) ==
    IF token # None /\ token # END /\ from_token(token).ok
    THEN [FreshComp EXCEPT !.pc = "ids", !.limit = limit, !.token = token,
                           !.decoded = TRUE,
                           !.next_batch = <<from_token(token).cursor>>,
                           !.ver0 = DataVersion, !.ver1 = DataVersion]
    ELSE [FreshComp EXCEPT !.pc = "ids", !.limit = limit, !.token = token,
                           !.decoded = (token # None /\ token # END),
                           !.ver0 = DataVersion, !.ver1 = DataVersion]

\* Lines 54-59: the part of _get_public_room_list that runs inside the call,
\* up to its first store call.
Begin(limit, token) ==
    IF token # None /\ token # END
    THEN IF from_token(token).ok
         THEN [FreshComp EXCEPT !.pc = "ids", !.limit = limit, !.token = token,
                                !.decoded = TRUE,
                                !.next_batch = <<from_token(token).cursor>>,
                                !.ver0 = DataVersion, !.ver1 = DataVersion]
         ELSE [FreshComp EXCEPT !.pc = "failed", !.limit = limit, !.token = token,
                                !.decoded = TRUE,
                                !.ver0 = DataVersion, !.ver1 = DataVersion]
    ELSE [FreshComp EXCEPT !.pc = "ids", !.limit = limit, !.token = token,
                           !.ver0 = DataVersion, !.ver1 = DataVersion]

\* GetPublicRoomIds with the test of line 65 left out: the max stream
\* ordering is read whether or not there is a cursor.
GetPublicRoomIds_AlwaysReadMax(k) ==
    /\ comp[k].pc = "ids"
    /\ comp' = [comp EXCEPT ![k] =
           [comp[k] EXCEPT !.room_ids = SetToSeq(public_room_ids),
                           !.store_calls = @ + 1,
                           !.pc = "pos"]]
    /\ UNCHANGED <<storeVars, calls, ncalls, response_cache>>

\* Line 59 returns: room_ids = yield self.store.get_public_room_ids(); with a
\* cursor the function then runs on to line 97.
GetPublicRoomIds(k) ==
    /\ comp[k].pc = "ids"
    /\ \E rec \in {[comp[k] EXCEPT !.room_ids = SetToSeq(public_room_ids),
                                    !.store_calls = @ + 1]} :
          IF rec.next_batch # None
          THEN \E positioned \in {[rec EXCEPT !.current_stream_token =
                                       <<rec.next_batch[1].stream_ordering>>]} :
                  comp' = [comp EXCEPT ![k] = StartRank(positioned)]
          ELSE comp' = [comp EXCEPT ![k] = [rec EXCEPT !.pc = "pos"]]
    /\ UNCHANGED <<storeVars, calls, ncalls, response_cache>>

\* Line 68 returns: current_stream_token = yield
\* self.store.get_room_max_stream_ordering()
GetRoomMaxStreamOrdering(k) ==
    /\ comp[k].pc = "pos"
    /\ \E rec \in {[comp[k] EXCEPT !.current_stream_token = <<max_stream>>,
                                    !.store_calls = @ + 1,
                                    !.read_max = @ + 1]} :
          comp' = [comp EXCEPT ![k] = StartRank(rec)]
    /\ UNCHANGED <<storeVars, calls, ncalls, response_cache>>

\* OrderForRoom with the return of lines 91-92 left out.
OrderForRoom_KeepEmpty(rec, r) ==
    LET p == rec.current_stream_token[1] IN
    IF ~get_forward_extremeties_for_room(r, p)
    THEN rec
    ELSE LET num_joined_users == get_current_user_in_room(r, p)
         IN [rec EXCEPT
               !.rooms_to_num_joined =
                 [q \in DOMAIN @ \cup {r} |->
                     IF q = r THEN num_joined_users ELSE @[q]],
               !.rooms_to_order_value =
                 [q \in DOMAIN @ \cup {r} |->
                     IF q = r THEN <<0 - num_joined_users, r>> ELSE @[q]]]

\* Lines 74-95: get_order_for_room(room_id) with the answers of the store and
\* the state handler.
OrderForRoom(rec, r) ==
    LET p == rec.current_stream_token[1] IN
    IF ~get_forward_extremeties_for_room(r, p)
    THEN rec
    ELSE LET num_joined_users == get_current_user_in_room(r, p)
             withNum == [rec EXCEPT !.rooms_to_num_joined =
                 [q \in DOMAIN @ \cup {r} |->
                     IF q = r THEN num_joined_users ELSE @[q]]]
         IN IF num_joined_users = 0
            THEN withNum
            ELSE [withNum EXCEPT !.rooms_to_order_value =
                 [q \in DOMAIN @ \cup {r} |->
                     IF q = r THEN <<0 - num_joined_users, r>> ELSE @[q]]]

\* One worker of the first fan-out returns; the last one to return lets the
\* function run on from line 99.
get_order_for_room(k, r) ==
    /\ comp[k].pc = "rank"
    /\ r \in comp[k].inflight
    /\ \E rec \in {WorkerDone([OrderForRoom(comp[k], r) EXCEPT !.store_calls = @ + 1], r)} :
          comp' = [comp EXCEPT ![k] =
              IF FanOutFinished(rec) THEN Select(rec) ELSE rec]
    /\ UNCHANGED <<storeVars, calls, ncalls, response_cache>>

\* NotPublic with the test of join_rule's truth at line 158 left out.
NotPublic_AnyRule(rule) == rule # "none" /\ rule # "public"

\* Lines 155-159: is the room dropped for its join rules event.
NotPublic(rule) == rule # "none" /\ rule # "empty" /\ rule # "public"

\* Lines 124-159: handle_room(room_id) reads the current state of the room;
\* a room without joined users or that is not public any more is left out.
handle_room_state(k, r) ==
    /\ comp[k].pc = "enrich"
    /\ r \in comp[k].inflight
    /\ \E rec0 \in {[comp[k] EXCEPT
               !.store_calls = @ + 1,
               !.join_rules = [q \in DOMAIN @ \cup {r} |->
                                  IF q = r THEN join_rule[r] ELSE @[q]]]} :
       \E rec \in {IF rec0.rooms_to_num_joined[r] = 0 \/ NotPublic(join_rule[r])
                   THEN WorkerDone(rec0, r)
                   ELSE [rec0 EXCEPT !.inflight = @ \ {r}, !.ready = @ \cup {r}]} :
          comp' = [comp EXCEPT ![k] =
              IF FanOutFinished(rec) THEN Finish(rec) ELSE rec]
    /\ UNCHANGED <<storeVars, calls, ncalls, response_cache>>

\* Lines 161-201: handle_room(room_id) gets the aliases and appends its entry
\* to chunk; the last worker to return lets the function run on from line 205.
handle_room_append(k, r) ==
    /\ comp[k].pc = "enrich"
    /\ r \in comp[k].ready
    /\ \E rec0 \in {[comp[k] EXCEPT
               !.store_calls = @ + 1,
               !.ready = @ \ {r},
               !.chunk = Append(@, [room_id |-> r,
                                    num_joined_members |->
                                        comp[k].rooms_to_num_joined[r]]),
               !.appended = Append(@, r)]} :
       \E rec \in {IF rec0.queue = <<>> THEN rec0
                   ELSE [rec0 EXCEPT !.inflight = @ \cup {Head(rec0.queue)},
                                     !.queue = Tail(@)]} :
          comp' = [comp EXCEPT ![k] =
              IF FanOutFinished(rec) THEN Finish(rec) ELSE rec]
    /\ UNCHANGED <<storeVars, calls, ncalls, response_cache>>

\* --------------------------------------------------- failing workers
\* concurrently_execute fails with the error of the first worker that fails;
\* the yield of line 97 or 203 raises it and nothing catches it, so the
\* invocation fails with it.  What the other workers still do is discarded.
FanOutFails(rec, r) ==
    [rec EXCEPT !.pc = "failed", !.failed_room = <<r>>, !.ver1 = DataVersion]

\* Lines 74-97: a call of the store or the state handler raises in
\* get_order_for_room(room_id).
get_order_for_room_raises(k, r) ==
    /\ comp[k].pc = "rank"
    /\ r \in comp[k].inflight
    /\ comp' = [comp EXCEPT ![k] = FanOutFails(comp[k], r)]
    /\ UNCHANGED <<storeVars, calls, ncalls, response_cache>>

\* handle_room_raises with the error caught in handle_room: the room is left
\* out and the other rooms are served.
handle_room_raises_OmitRoom(k, r) ==
    /\ comp[k].pc = "enrich"
    /\ r \in comp[k].inflight \cup comp[k].ready
    /\ \E rec0 \in {[comp[k] EXCEPT !.failed_room = <<r>>, !.ready = @ \ {r}]} :
       \E rec \in {WorkerDone(rec0, r)} :
          comp' = [comp EXCEPT ![k] =
              IF FanOutFinished(rec) THEN Finish(rec) ELSE rec]
    /\ UNCHANGED <<storeVars, calls, ncalls, response_cache>>

\* Lines 124-203: a call of the store or the state handler raises in
\* handle_room(room_id), before or after the test of the join rule.
handle_room_raises(k, r) ==
    /\ comp[k].pc = "enrich"
    /\ r \in comp[k].inflight \cup comp[k].ready
    /\ comp' = [comp EXCEPT ![k] = FanOutFails(comp[k], r)]
    /\ UNCHANGED <<storeVars, calls, ncalls, response_cache>>

\* ------------------------------------------- response cache (external)
\* ResponseCache.get(key): the entry registered under key, or None.
response_cache_get(key) ==
    IF key \in DOMAIN response_cache THEN <<response_cache[key]>> ELSE None

\* ResponseCache.set(key, deferred): register the computation under key.
response_cache_set(key, k) ==
    [q \in DOMAIN response_cache \cup {key} |->
        IF q = key THEN k ELSE response_cache[q]]

NoCall == [made |-> FALSE, limit |-> None, token |-> None, comp |-> 0, hit |-> FALSE]

\* get_local_public_room_list without the test of line 45: the page is
\* computed at every call.
get_local_public_room_list_NoCache(limit, token) ==
    /\ ncalls < NumSlots
    /\ LET c == ncalls + 1
           key == <<limit, token>>
       IN /\ ncalls' = c
          /\ comp' = [comp EXCEPT ![c] = Begin(limit, token)]
          /\ response_cache' = response_cache_set(key, c)
          /\ calls' = [calls EXCEPT ![c] =
                 [made |-> TRUE, limit |-> limit, token |-> token,
                  comp |-> c, hit |-> key \in DOMAIN response_cache]]
    /\ UNCHANGED storeVars

\* Lines 43-50: get_local_public_room_list(limit, next_batch).  The call
\* made is number ncalls + 1; `hit` records whether the cache held an entry
\* for the key when the call was made.
get_local_public_room_list(limit, token) ==
    /\ ncalls < NumSlots
    /\ LET c == ncalls + 1
           key == <<limit, token>>
           result == response_cache_get(key)
       IN /\ ncalls' = c
          /\ IF result = None
             THEN /\ comp' = [comp EXCEPT ![c] = Begin(limit, token)]
                  /\ response_cache' = response_cache_set(key, c)
                  /\ calls' = [calls EXCEPT ![c] =
                         [made |-> TRUE, limit |-> limit, token |-> token,
                          comp |-> c, hit |-> key \in DOMAIN response_cache]]
             ELSE /\ UNCHANGED <<comp, response_cache>>
                  /\ calls' = [calls EXCEPT ![c] =
                         [made |-> TRUE, limit |-> limit, token |-> token,
                          comp |-> result[1], hit |-> key \in DOMAIN response_cache]]
    /\ UNCHANGED storeVars

\* The cache drops the entry of a computation that has completed.
Evict(key) ==
    /\ key \in DOMAIN response_cache
    /\ comp[response_cache[key]].pc \in {"done", "failed"}
    /\ response_cache' = [q \in DOMAIN response_cache \ {key} |-> response_cache[q]]
    /\ UNCHANGED <<storeVars, comp, calls, ncalls>>

\* ----------------------------------------------- changes of the store
\* A membership event in room r: the stream advances, and from the new
\* position on the room has forward extremities with n users joined.  One
\* event is one user joining or leaving.
MembershipEvent(r, n) ==
    /\ max_stream + toggles < MaxChanges
    /\ \/ n = history[r][max_stream + 1].joined + 1
       \/ n = history[r][max_stream + 1].joined - 1
    /\ max_stream' = max_stream + 1
    /\ history' = [q \in Rooms |->
           Append(history[q],
                  IF q = r THEN [ext |-> TRUE, joined |-> n]
                  ELSE history[q][max_stream + 1])]
    /\ UNCHANGED <<public_room_ids, join_rule, toggles, comp, calls, ncalls,
                   response_cache>>

\* A join rules event in room r, which has events already.
JoinRuleEvent(r, rule) ==
    /\ max_stream + toggles < MaxChanges
    /\ history[r][max_stream + 1].ext
    /\ rule # "none"
    /\ rule # join_rule[r]
    /\ max_stream' = max_stream + 1
    /\ history' = [q \in Rooms |->
           Append(history[q],
                  IF q = r THEN [ext |-> TRUE, joined |-> history[q][max_stream + 1].joined]
                  ELSE history[q][max_stream + 1])]
    /\ join_rule' = [join_rule EXCEPT ![r] = rule]
    /\ UNCHANGED <<public_room_ids, toggles, comp, calls, ncalls, response_cache>>

\* Room r is added to or removed from the published directory.
SetPublic(r) ==
    /\ max_stream + toggles < MaxChanges
    /\ toggles' = toggles + 1
    /\ public_room_ids' = IF r \in public_room_ids
                          THEN public_room_ids \ {r}
                          ELSE public_room_ids \cup {r}
    /\ UNCHANGED <<max_stream, history, join_rule, comp, calls, ncalls,
                   response_cache>>

\* ------------------------------------------------------ specification
\* The directory at start: room 1 has one joined user and a public join
\* rule, room 2 has two joined users and no join rules event, every other
\* room is published but has no event yet.
Init ==
    /\ public_room_ids = Rooms
    /\ max_stream = 0
    /\ history = [r \in Rooms |->
           <<IF r = 1 THEN [ext |-> TRUE, joined |-> 1]
             ELSE IF r = 2 THEN [ext |-> TRUE, joined |-> 2]
             ELSE [ext |-> FALSE, joined |-> 0]>>]
    /\ join_rule = [r \in Rooms |-> IF r = 1 THEN "public" ELSE "none"]
    /\ toggles = 0
    /\ comp = [k \in CallIds |-> FreshComp]
    /\ calls = [c \in CallIds |-> NoCall]
    /\ ncalls = 0
    /\ response_cache = <<>>

\* The tokens a caller can pass now: a cursor is of a position that the
\* stream has reached.
TokensNow ==
    {t \in Tokens :
        t \in ValidTokens => from_token(t).cursor.stream_ordering <= max_stream}

\* What the requests made do next.
Requests ==
    \/ \E k \in CallIds : GetPublicRoomIds(k)
    \/ \E k \in CallIds : GetRoomMaxStreamOrdering(k)
    \/ \E k \in CallIds, r \in Rooms : get_order_for_room(k, r)
    \/ \E k \in CallIds, r \in Rooms : handle_room_state(k, r)
    \/ \E k \in CallIds, r \in Rooms : handle_room_append(k, r)

Evictions == \E key \in DOMAIN response_cache : Evict(key)

StoreChanges ==
    \/ \E r \in Rooms, n \in 0..MaxMembers : MembershipEvent(r, n)
    \/ \E r \in Rooms, rule \in JoinRuleValues : JoinRuleEvent(r, rule)
    \/ \E r \in Rooms : SetPublic(r)

\* No request is being computed.
Quiet == \A k \in CallIds : comp[k].pc \in {"unused", "done", "failed"}

\* One request, with any page size and any token, while the store changes.
Next ==
    \/ \E limit \in Limits, token \in TokensNow :
          ncalls = 0 /\ get_local_public_room_list(limit, token)
    \/ Requests
    \/ Evictions
    \/ StoreChanges

Spec == Init /\ [][Next]_vars

\* The tokens a client holds that has seen the responses so far: the cursors
\* of the responses, and the same cursors in the other direction.
IssuedTokens ==
    {comp[k].results.next_batch : k \in {q \in CallIds : comp[q].pc = "done"}}
    \cup {comp[k].results.prev_batch : k \in {q \in CallIds : comp[q].pc = "done"}}

FollowUpTokens ==
    LET held == IssuedTokens \ {None}
    IN held \cup {to_token(copy_and_replace(from_token(t).cursor,
                      ~from_token(t).cursor.direction_is_forward)) : t \in held}

\* A client that pages with one page size of at least 1: it starts anywhere,
\* waits for each response, and then asks again with no token, "END", the
\* token it used before or a token it holds.  The store changes between its
\* requests.
NextPages ==
    \/ \E limit \in Limits \ {None, <<0>>}, token \in TokensNow \ MalformedTokens :
          ncalls = 0 /\ get_local_public_room_list(limit, token)
    \/ /\ ncalls > 0
       /\ ncalls < NumCalls
       /\ Quiet
       /\ \E token \in {None, END} \cup {calls[c].token : c \in 1..ncalls}
                       \cup FollowUpTokens :
             get_local_public_room_list(calls[1].limit, token)
    \/ Requests
    \/ Evictions
    \/ Quiet /\ StoreChanges

SpecPages == Init /\ [][NextPages]_vars

\* Callers whose requests overlap, each asking for the first page or for the
\* page after the first room, with page size 1, while the store changes.
CacheTokens ==
    {None,
     to_token([stream_ordering |-> 0, current_limit |-> 1,
               direction_is_forward |-> TRUE])}

NextCache ==
    \/ \E token \in CacheTokens :
          ncalls < NumCalls /\ get_local_public_room_list(<<1>>, token)
    \/ Requests
    \/ Evictions
    \/ StoreChanges

SpecCache == Init /\ [][NextCache]_vars

\* The store or the state handler fails in a worker.
Faults ==
    \/ \E k \in CallIds, r \in Rooms : get_order_for_room_raises(k, r)
    \/ \E k \in CallIds, r \in Rooms : handle_room_raises(k, r)

\* One request, with any page size and any token, over a store that changes
\* and that can fail.
NextFaults ==
    \/ \E limit \in Limits, token \in TokensNow :
          ncalls = 0 /\ get_local_public_room_list(limit, token)
    \/ Requests
    \/ Evictions
    \/ StoreChanges
    \/ Faults

SpecFaults == Init /\ [][NextFaults]_vars

\* One request of any page size up to MaxPage, without token, with "END" or
\* with a cursor of an offset up to MaxDeep, made after the store changed
\* and served while it holds still.
SelectLimits == {None} \cup {<<n>> : n \in 0..MaxPage}

SelectCursors ==
    [stream_ordering : 0..MaxChanges,
     current_limit : 0..MaxDeep,
     direction_is_forward : BOOLEAN]

NextSelect ==
    \/ \E limit \in SelectLimits, c \in SelectCursors :
          /\ ncalls = 0
          /\ c.stream_ordering <= max_stream
          /\ get_local_public_room_list(limit, to_token(c))
    \/ \E limit \in SelectLimits, token \in {None, END} :
          ncalls = 0 /\ get_local_public_room_list(limit, token)
    \/ Requests
    \/ Evictions
    \/ ncalls = 0 /\ StoreChanges

SpecSelect == Init /\ [][NextSelect]_vars

\* No request is being computed and the cache has dropped the entries of the
\* ones that completed.
Idle == Quiet /\ DOMAIN response_cache = {}

\* A client that traverses the directory with one page size of at least 1,
\* over a store that changed before and holds still since: it asks for the
\* first page and then for the page of each next cursor, or it starts from a
\* backward cursor and then asks for the page of each prev cursor.
TraverseLimits == {<<n>> : n \in 1..MaxPage}

\* The cursor of the last response in the direction of the traversal.
TravelCursor ==
    IF calls[1].token = None
    THEN comp[ncalls].results.next_batch
    ELSE comp[ncalls].results.prev_batch

FollowCursor ==
    /\ ncalls >= 1
    /\ Idle
    /\ comp[ncalls].pc = "done"
    /\ TravelCursor # None
    /\ get_local_public_room_list(calls[1].limit, TravelCursor)

NextTraverse ==
    \/ ncalls = 0 /\ StoreChanges
    \/ \E limit \in TraverseLimits :
          ncalls = 0 /\ get_local_public_room_list(limit, None)
    \/ \E limit \in TraverseLimits, c \in SelectCursors :
          /\ ncalls = 0
          /\ ~c.direction_is_forward
          /\ c.stream_ordering <= max_stream
          /\ get_local_public_room_list(limit, to_token(c))
    \/ FollowCursor
    \/ Requests
    \/ Evictions

\* Every call of the store and the state handler returns, the cache drops
\* the entry of a request that completed, and the client asks for the page
\* of the cursor it was given.
SpecTraverse ==
    /\ Init /\ [][NextTraverse]_vars
    /\ WF_vars(Requests) /\ WF_vars(Evictions) /\ WF_vars(FollowCursor)

\* A client that browses the directory over a store that changed before and
\* holds still since: it asks for the first page and then, with any page
\* size of at least 1 or none, for the page of any cursor a response gave it.
BrowseLimits == {None} \cup {<<n>> : n \in 1..MaxPage}

IssuedCursors(k) ==
    {comp[k].results.next_batch, comp[k].results.prev_batch} \ {None}

FollowAnyCursor ==
    \E limit \in BrowseLimits, k \in 1..ncalls :
        /\ Idle
        /\ comp[k].pc = "done"
        /\ \E token \in IssuedCursors(k) :
              get_local_public_room_list(limit, token)

NextBrowse ==
    \/ ncalls = 0 /\ StoreChanges
    \/ \E limit \in BrowseLimits :
          ncalls = 0 /\ get_local_public_room_list(limit, None)
    \/ FollowAnyCursor
    \/ Requests
    \/ Evictions

SpecBrowse == Init /\ [][NextBrowse]_vars

\* One request with the token of any cursor, with no token or with "END",
\* over a store that holds still.  The code takes every cursor that decodes,
\* whatever its position.
NextCodec ==
    \/ \E limit \in Limits, c \in CodecCursors :
          ncalls = 0 /\ get_local_public_room_list(limit, to_token(c))
    \/ \E limit \in Limits, token \in {None, END} :
          ncalls = 0 /\ get_local_public_room_list(limit, token)
    \/ Requests
    \/ Evictions

SpecCodec == Init /\ [][NextCodec]_vars

\* A directory with more rooms than a fan-out runs at a time.  Every room
\* has events and one or two joined users; the first two rooms are public,
\* the others have been made invite-only since they were published.
ListedRooms == 1..NumListed

InitListed ==
    /\ public_room_ids = ListedRooms
    /\ max_stream = 0
    /\ history = [r \in ListedRooms |-> <<[ext |-> TRUE, joined |-> 1 + (r % 2)]>>]
    /\ join_rule = [r \in ListedRooms |->
           IF r = 1 THEN "public" ELSE IF r = 2 THEN "none" ELSE "invite"]
    /\ toggles = 0
    /\ comp = [k \in CallIds |-> FreshComp]
    /\ calls = [c \in CallIds |-> NoCall]
    /\ ncalls = 0
    /\ response_cache = <<>>

RequestsListed ==
    \/ \E k \in CallIds : GetPublicRoomIds(k)
    \/ \E k \in CallIds : GetRoomMaxStreamOrdering(k)
    \/ \E k \in CallIds, r \in ListedRooms : get_order_for_room(k, r)
    \/ \E k \in CallIds, r \in ListedRooms : handle_room_state(k, r)
    \/ \E k \in CallIds, r \in ListedRooms : handle_room_append(k, r)

\* One request for the first page, with any page size, over that directory.
NextListed ==
    \/ \E limit \in Limits :
          ncalls = 0 /\ get_local_public_room_list(limit, None)
    \/ RequestsListed
    \/ Evictions

\* Every call of the store and the state handler returns: the reactor runs
\* the callback of each call that is outstanding.
SpecListed == InitListed /\ [][NextListed]_vars /\ WF_vars(RequestsListed)

\* ------------------------------------------------------------ properties
Done(k) == comp[k].pc = "done"

\* The cursor a request was made with and where its traversal starts.
HasCursor(k) == comp[k].next_batch # None
IsForward(k) == ~HasCursor(k) \/ comp[k].next_batch[1].direction_is_forward
Offset(k) == IF HasCursor(k) THEN comp[k].next_batch[1].current_limit ELSE 0
Position(k) == comp[k].current_stream_token[1]

ChunkRooms(k) == {comp[k].results.chunk[i].room_id : i \in 1..Len(comp[k].results.chunk)}

\* The cursor a token of a response stands for.
CursorOf(token) == from_token(token).cursor

\* C2: a forward request with page size S >= 1 from offset O over N ranked
\* rooms selects the rooms ranked O+1 .. min(N, O+S); its next cursor exists
\* iff N > O+S and is {p, O+S, forward}; its prev cursor exists iff it was
\* made with a cursor and is {p, O, backward}.
C2_ForwardPage ==
    \A k \in CallIds :
        (Done(k) /\ Truthy(comp[k].limit) /\ IsForward(k)) =>
            LET N == Len(comp[k].ranked)
                O == Offset(k)
                S == comp[k].limit[1]
                res == comp[k].results
            IN /\ comp[k].sorted_rooms = SubSeq(comp[k].ranked, O + 1, Min(N, O + S))
               /\ (res.next_batch # None) <=> (N > O + S)
               /\ res.next_batch # None =>
                     /\ from_token(res.next_batch).ok
                     /\ CursorOf(res.next_batch) =
                            [stream_ordering |-> Position(k),
                             current_limit |-> O + S,
                             direction_is_forward |-> TRUE]
               /\ (res.prev_batch # None) <=> HasCursor(k)
               /\ res.prev_batch # None =>
                     /\ from_token(res.prev_batch).ok
                     /\ CursorOf(res.prev_batch) =
                            [stream_ordering |-> Position(k),
                             current_limit |-> O,
                             direction_is_forward |-> FALSE]

\* A forward request made with a cursor past the first room has returned,
\* and more rooms follow its page.
C2_Witness ==
    \E k \in CallIds :
        /\ Done(k) /\ Truthy(comp[k].limit) /\ HasCursor(k) /\ IsForward(k)
        /\ Offset(k) >= 1
        /\ Len(comp[k].ranked) > Offset(k) + comp[k].limit[1]
        /\ comp[k].results.next_batch # None
        /\ comp[k].results.prev_batch # None

\* The position of request k is one the store had reached when the ranking
\* was made, so that history holds what the ranking read.
PositionReached(k) == comp[k].read_max = 1 \/ Position(k) <= comp[k].ver0[1]

\* C5: a room without joined users, or without forward extremities at the
\* snapshot position, is never in the ranking, in the rooms selected or in
\* the chunk of a request.
C5_NoEmptyRooms ==
    \A k \in CallIds :
        comp[k].pc \in {"enrich", "done"} =>
            /\ \A r \in Range(comp[k].ranked) \cup Range(comp[k].sorted_rooms)
                        \cup Range(comp[k].appended) \cup ChunkRooms(k) :
                  /\ r \in DOMAIN comp[k].rooms_to_num_joined
                  /\ comp[k].rooms_to_num_joined[r] >= 1
                  /\ PositionReached(k) =>
                        /\ history[r][Position(k) + 1].ext
                        /\ history[r][Position(k) + 1].joined >= 1
            /\ \A i \in 1..Len(comp[k].chunk) :
                  comp[k].chunk[i].num_joined_members >= 1

\* A request has returned a page with a room in it although one of the
\* published rooms had no joined user and another no forward extremities.
C5_Witness ==
    \E k \in CallIds :
        /\ Done(k)
        /\ comp[k].results.chunk # <<>>
        /\ \E r \in Range(comp[k].room_ids) :
              r \in DOMAIN comp[k].rooms_to_num_joined
              /\ comp[k].rooms_to_num_joined[r] = 0
        /\ \E r \in Range(comp[k].room_ids) :
              r \notin DOMAIN comp[k].rooms_to_num_joined

\* C6: whatever the order in which the workers return, the chunk of a
\* response, forward or backward, holds the entries appended, ordered by
\* descending number of joined users and then ascending room id.
C6_ChunkOrdered ==
    \A k \in CallIds :
        Done(k) =>
            LET chunk == comp[k].results.chunk IN
            /\ Len(chunk) = Len(comp[k].appended)
            /\ ChunkRooms(k) = Range(comp[k].appended)
            /\ \A i \in 1..Len(chunk), j \in 1..Len(chunk) :
                  i < j =>
                     \/ chunk[i].num_joined_members > chunk[j].num_joined_members
                     \/ /\ chunk[i].num_joined_members = chunk[j].num_joined_members
                        /\ chunk[i].room_id < chunk[j].room_id

\* A backward request has returned two rooms or more whose workers returned
\* in another order than the one of the chunk.
C6_Witness ==
    \E k \in CallIds :
        /\ Done(k) /\ ~IsForward(k)
        /\ Len(comp[k].results.chunk) >= 2
        /\ comp[k].appended #
               [i \in 1..Len(comp[k].results.chunk) |-> comp[k].results.chunk[i].room_id]

\* C8 as claimed: a selected room whose join rules event has a rule other
\* than "public", an absent or empty rule included, is not in the chunk;
\* a room with the rule "public" or no join rules event is.
C8_AsClaimed ==
    \A k \in CallIds :
        Done(k) =>
            \A r \in DOMAIN comp[k].join_rules :
                /\ comp[k].join_rules[r] \in {"empty", "invite"} => r \notin ChunkRooms(k)
                /\ comp[k].join_rules[r] \in {"none", "public"} => r \in ChunkRooms(k)

\* C8 amended: a selected room is left out of the chunk, without an error,
\* iff its join rules event has a rule that is neither empty nor "public";
\* with an absent or empty rule, the rule "public" or no join rules event it
\* is in the chunk.
C8_DropNotPublic ==
    \A k \in CallIds :
        Done(k) =>
            /\ DOMAIN comp[k].join_rules = Range(comp[k].sorted_rooms)
            /\ \A r \in DOMAIN comp[k].join_rules :
                  /\ r \in Range(comp[k].room_ids)
                  /\ comp[k].join_rules[r] = "invite" <=> r \notin ChunkRooms(k)

\* A request has returned a page without a selected room whose rule was not
\* public, and with another room.
C8_Witness ==
    \E k \in CallIds :
        /\ Done(k)
        /\ \E r \in DOMAIN comp[k].join_rules :
              comp[k].join_rules[r] = "invite" /\ r \notin ChunkRooms(k)
        /\ ChunkRooms(k) # {}

SameData(a, b) ==
    /\ comp[a].ver0 = comp[a].ver1
    /\ comp[b].ver0 = comp[b].ver1
    /\ comp[a].ver0 = comp[b].ver0

\* The cursors that the response of request k holds.
Issued(k) == {comp[k].results.next_batch, comp[k].results.prev_batch} \ {None}

\* C1: with unchanged data, a forward request with page size S >= 1 that
\* issues a next cursor, and the backward request with page size S from the
\* same position and offset as that cursor, return the same chunk for the
\* same snapshot position.
C1_Symmetry ==
    \A a \in CallIds, b \in CallIds :
        (/\ Done(a) /\ Done(b)
         /\ Truthy(comp[a].limit) /\ comp[b].limit = comp[a].limit
         /\ IsForward(a)
         /\ comp[a].results.next_batch # None
         /\ comp[b].next_batch =
                <<copy_and_replace(CursorOf(comp[a].results.next_batch), FALSE)>>
         /\ SameData(a, b))
        => /\ comp[b].results.chunk = comp[a].results.chunk
           /\ Range(comp[b].sorted_rooms) = Range(comp[a].sorted_rooms)
           /\ Position(b) = Position(a)

\* Such a pair of requests has returned, the forward one from an offset past
\* the first room, and its page holds a room.
C1_Witness ==
    \E a \in CallIds, b \in CallIds :
        /\ Done(a) /\ Done(b)
        /\ Truthy(comp[a].limit) /\ comp[b].limit = comp[a].limit
        /\ IsForward(a) /\ Offset(a) >= 1
        /\ comp[a].results.next_batch # None
        /\ comp[b].next_batch =
               <<copy_and_replace(CursorOf(comp[a].results.next_batch), FALSE)>>
        /\ SameData(a, b)
        /\ comp[a].results.chunk # <<>>

\* C3: the request made with the next cursor of a first page applies the
\* offset to the ranking the cursor was issued from, and so neither repeats
\* nor skips a room, although the store changes between the two requests.
C3_SnapshotConsistent ==
    \A a \in CallIds, b \in CallIds :
        (/\ Done(a) /\ Done(b)
         /\ comp[a].token = None
         /\ comp[a].results.next_batch # None
         /\ comp[b].token = comp[a].results.next_batch)
        => /\ comp[b].ranked = comp[a].ranked
           /\ Range(comp[b].sorted_rooms) \cap Range(comp[a].sorted_rooms) = {}
           /\ comp[a].sorted_rooms \o comp[b].sorted_rooms =
                  SliceTo(comp[a].ranked,
                          Len(comp[a].sorted_rooms) + Len(comp[b].sorted_rooms))

\* C7: a request made with a cursor ranks at the cursor's position and does
\* not read the max stream ordering; a request without one reads it once;
\* every cursor of a response carries the position of its request, and a
\* request made with a cursor of a response has the position of that
\* response's request.
C7_PositionCarried ==
    /\ \A k \in CallIds :
          /\ HasCursor(k) =>
                /\ comp[k].read_max = 0
                /\ comp[k].current_stream_token # None =>
                      Position(k) = comp[k].next_batch[1].stream_ordering
          /\ (comp[k].pc # "unused" /\ ~HasCursor(k)) =>
                /\ comp[k].read_max <= 1
                /\ comp[k].current_stream_token # None =>
                      /\ comp[k].read_max = 1
                      /\ comp[k].ver0[1] <= Position(k)
                      /\ Position(k) <= max_stream
          /\ Done(k) =>
                \A t \in Issued(k) : CursorOf(t).stream_ordering = Position(k)
    /\ \A a \in CallIds, b \in CallIds :
          (Done(a) /\ comp[b].pc # "unused" /\ comp[b].token \in Issued(a)) =>
              /\ comp[b].pc # "failed"
              /\ comp[b].current_stream_token # None => Position(b) = Position(a)

\* A request made with a cursor of the response to a request without cursor
\* has returned a cursor, after the store advanced past their position.
C7_Witness ==
    \E a \in CallIds, b \in CallIds :
        /\ Done(a) /\ Done(b)
        /\ comp[a].token = None
        /\ comp[b].token \in Issued(a)
        /\ Issued(b) # {}
        /\ Position(b) < max_stream

\* C9: a request with the token "END" does not decode it and is served as a
\* request without token: forward from offset 0 at the max stream ordering,
\* without prev cursor, and with unchanged data it returns what the request
\* without token returns.
C9_EndIsNoCursor ==
    /\ \A k \in CallIds :
          (comp[k].pc # "unused" /\ comp[k].token = END) =>
              /\ ~comp[k].decoded
              /\ comp[k].pc # "failed"
              /\ ~HasCursor(k)
              /\ Done(k) =>
                    /\ comp[k].read_max = 1
                    /\ comp[k].results.prev_batch = None
    /\ \A a \in CallIds, b \in CallIds :
          (/\ Done(a) /\ Done(b)
           /\ comp[a].token = END /\ comp[b].token = None
           /\ comp[a].limit = comp[b].limit
           /\ SameData(a, b))
          => /\ comp[a].results = comp[b].results
             /\ comp[a].sorted_rooms = comp[b].sorted_rooms
             /\ Position(a) = Position(b)

\* A request with "END" and one without token have returned, over unchanged
\* data, a page with a room and a next cursor.
C9_Witness ==
    \E a \in CallIds, b \in CallIds :
        /\ Done(a) /\ Done(b)
        /\ comp[a].token = END /\ comp[b].token = None
        /\ comp[a].limit = comp[b].limit
        /\ SameData(a, b)
        /\ comp[a].results.chunk # <<>>
        /\ comp[a].results.next_batch # None

\* The response a caller observes.
Observed(c) == comp[calls[c].comp]

\* C4: a call made while the cache holds an entry for its page size and
\* token starts no computation; it observes the computation, and so the
\* response, that an earlier call with the same page size and token
\* observes.
C4_Dedup ==
    \A c \in CallIds :
        (calls[c].made /\ calls[c].hit) =>
            /\ comp[c].pc = "unused"
            /\ \E c1 \in 1..(c - 1) :
                  /\ calls[c1].made
                  /\ calls[c1].limit = calls[c].limit
                  /\ calls[c1].token = calls[c].token
                  /\ calls[c1].comp = calls[c].comp
                  /\ Observed(c1).pc = Observed(c).pc
                  /\ Observed(c1).results = Observed(c).results
            /\ Observed(c).limit = calls[c].limit
            /\ Observed(c).token = calls[c].token

\* A second call with the page size and token of the first has been made
\* while the first one's page is still being computed, after the store
\* changed.
C4_Witness ==
    \E c \in CallIds :
        /\ calls[c].made /\ calls[c].hit
        /\ Observed(c).pc \in {"rank", "enrich"}
        /\ Observed(c).ver0 # DataVersion

\* C11: when the worker of a room raises, in the ranking or in the
\* enrichment, the request fails and returns no page: no chunk, not even the
\* entries appended so far, and no cursor.  A request that returns a page had
\* no worker raise, and a selected room that is missing from its chunk was
\* left out for its join rule.
C11_FailFast ==
    \A k \in CallIds :
        /\ comp[k].failed_room # None =>
              /\ comp[k].pc = "failed"
              /\ comp[k].results = NoResults
        /\ Done(k) =>
              /\ comp[k].failed_room = None
              /\ \A r \in Range(comp[k].sorted_rooms) \ ChunkRooms(k) :
                    /\ r \in DOMAIN comp[k].join_rules
                    /\ NotPublic(comp[k].join_rules[r])

\* The worker of a selected room has raised after the entry of another room
\* was appended to the chunk.
C11_Witness ==
    \E k \in CallIds :
        /\ comp[k].pc = "failed"
        /\ comp[k].failed_room # None
        /\ comp[k].sorted_rooms # <<>>
        /\ comp[k].appended # <<>>

\* The number of calls of the store and the state handler that have returned
\* when every worker of both fan-outs has run to its end: the two reads
\* before the ranking, one return per candidate room, one per selected room
\* and one more per room appended.
AllWorkersRun(k) ==
    /\ comp[k].pc = "done"
    /\ comp[k].queue = <<>> /\ comp[k].inflight = {} /\ comp[k].ready = {}
    /\ DOMAIN comp[k].rooms_to_num_joined = Range(comp[k].room_ids)
    /\ DOMAIN comp[k].join_rules = Range(comp[k].sorted_rooms)
    /\ comp[k].store_calls = 1 + comp[k].read_max + Len(comp[k].room_ids)
                                + Len(comp[k].sorted_rooms) + Len(comp[k].appended)

\* The workers of a fan-out that are running.
Running(k) == comp[k].inflight \cup comp[k].ready

\* C12: in the ranking and in the enrichment at most 10 workers are running
\* at any time, the rooms that wait are the ones not yet started, and when
\* no worker fails the worker of every room is run: a request that is being
\* computed returns with every candidate room ranked and every selected room
\* handled.
C12_BoundedFanOut ==
    /\ [](\A k \in CallIds :
            comp[k].pc \in {"rank", "enrich"} =>
               /\ Cardinality(Running(k)) <= 10
               /\ Running(k) \cap Range(comp[k].queue) = {}
               /\ comp[k].queue # <<>> => Cardinality(Running(k)) = 10)
    /\ (\E k \in CallIds : comp[k].pc \in {"ids", "pos", "rank", "enrich"})
          ~> (\A k \in CallIds : comp[k].pc # "unused" => AllWorkersRun(k))

\* In the enrichment 10 workers are running, one of them past the test of
\* the join rule, while another room waits.
C12_Witness ==
    \E k \in CallIds :
        /\ comp[k].pc = "enrich"
        /\ Cardinality(Running(k)) = 10
        /\ comp[k].ready # {}
        /\ comp[k].queue # <<>>

\* Each of the cursors with its token.
CodecTable == {<<c, to_token(c)>> : c \in CodecCursors}

\* C13: the token of a cursor decodes to that cursor: a request made with
\* to_token(c) does not fail and runs with the three fields of c; and the
\* cursors of its response are tokens that decode and encode again to
\* themselves.
C13_RoundTrip ==
    \A k \in CallIds :
        comp[k].pc # "unused" =>
            /\ \A e \in CodecTable :
                  comp[k].token = e[2] =>
                     /\ comp[k].decoded
                     /\ comp[k].pc # "failed"
                     /\ comp[k].next_batch = <<e[1]>>
            /\ Done(k) =>
                  \A t \in Issued(k) :
                     /\ from_token(t).ok
                     /\ to_token(CursorOf(t)) = t

\* A request has returned that was made with the token of a cursor whose
\* position takes three bytes (uint 16) and whose offset takes two (uint 8).
C13_Witness ==
    \E k \in CallIds, e \in CodecTable :
        /\ Done(k)
        /\ comp[k].token = e[2]
        /\ e[1].stream_ordering > 255 /\ e[1].stream_ordering < 65536
        /\ e[1].current_limit > 127 /\ e[1].current_limit < 256
        /\ comp[k].next_batch = <<e[1]>>
        /\ Issued(k) # {}

\* The key of room r in the ranking of request k.
RankKey(k, r) == <<0 - comp[k].rooms_to_num_joined[r], r>>

\* The ranking of request k as entries with their member counts.
RankedEntries(k) ==
    [i \in 1..Len(comp[k].ranked) |->
        [room_id |-> comp[k].ranked[i],
         num_joined_members |-> comp[k].rooms_to_num_joined[comp[k].ranked[i]]]]

\* C14: the ranking of a request holds each candidate room that has a joined
\* user at the snapshot position once and no other room; the keys
\* (-joined users, room id) of two of its rooms differ; it ascends strictly
\* under the key; and sorting it again by that key leaves it as it is.
C14_StrictTotalOrder ==
    \A k \in CallIds :
        comp[k].pc \in {"enrich", "done"} =>
            LET ranked == comp[k].ranked IN
            /\ Range(ranked) =
                  {r \in Range(comp[k].room_ids) :
                      /\ r \in DOMAIN comp[k].rooms_to_num_joined
                      /\ comp[k].rooms_to_num_joined[r] >= 1}
            /\ PositionReached(k) =>
                  /\ Range(ranked) =
                        {r \in Range(comp[k].room_ids) :
                            /\ history[r][Position(k) + 1].ext
                            /\ history[r][Position(k) + 1].joined >= 1}
                  /\ \A r \in Range(ranked) :
                        comp[k].rooms_to_num_joined[r] = history[r][Position(k) + 1].joined
            /\ \A i \in 1..Len(ranked), j \in 1..Len(ranked) :
                  /\ i # j => ranked[i] # ranked[j]
                  /\ i # j => RankKey(k, ranked[i]) # RankKey(k, ranked[j])
                  /\ i < j => KeyLess(RankKey(k, ranked[i]), RankKey(k, ranked[j]))
            /\ SortChunk(RankedEntries(k)) = RankedEntries(k)

\* A request has ranked three rooms, two of which have as many joined users.
C14_Witness ==
    \E k \in CallIds :
        /\ Done(k)
        /\ Len(comp[k].ranked) >= 3
        /\ \E i \in 1..Len(comp[k].ranked), j \in 1..Len(comp[k].ranked) :
              /\ i # j
              /\ comp[k].rooms_to_num_joined[comp[k].ranked[i]] =
                     comp[k].rooms_to_num_joined[comp[k].ranked[j]]
        /\ \E i \in 1..Len(comp[k].ranked), j \in 1..Len(comp[k].ranked) :
              comp[k].rooms_to_num_joined[comp[k].ranked[i]] >
                  comp[k].rooms_to_num_joined[comp[k].ranked[j]]

\* C15: a backward request with page size S >= 1 from offset O over N ranked
\* rooms selects, with M = min(O, N), the rooms ranked max(1, M-S+1) .. M,
\* the nearest to the boundary first; its prev cursor exists iff M > S and is
\* {p, max(0, O-S), backward}; its next cursor always exists and is
\* {p, O, forward}.
C15_BackwardPage ==
    \A k \in CallIds :
        (Done(k) /\ Truthy(comp[k].limit) /\ HasCursor(k) /\ ~IsForward(k)) =>
            LET N == Len(comp[k].ranked)
                O == Offset(k)
                S == comp[k].limit[1]
                M == Min(O, N)
                res == comp[k].results
            IN /\ comp[k].sorted_rooms =
                     Reverse(SubSeq(comp[k].ranked, Max(1, M - S + 1), M))
               /\ Len(comp[k].sorted_rooms) = Min(S, M)
               /\ (res.prev_batch # None) <=> (M > S)
               /\ res.prev_batch # None =>
                     /\ from_token(res.prev_batch).ok
                     /\ CursorOf(res.prev_batch) =
                            [stream_ordering |-> Position(k),
                             current_limit |-> Max(0, O - S),
                             direction_is_forward |-> FALSE]
               /\ res.next_batch # None
               /\ from_token(res.next_batch).ok
               /\ CursorOf(res.next_batch) =
                      [stream_ordering |-> Position(k),
                       current_limit |-> O,
                       direction_is_forward |-> TRUE]

\* A backward request with a page size of 2 or more has returned a full
\* page and a prev cursor.
C15_Witness ==
    \E k \in CallIds :
        /\ Done(k) /\ Truthy(comp[k].limit) /\ HasCursor(k) /\ ~IsForward(k)
        /\ comp[k].limit[1] >= 2
        /\ Len(comp[k].sorted_rooms) = comp[k].limit[1]
        /\ comp[k].results.prev_batch # None
        /\ comp[k].results.next_batch # None

\* C16 as claimed: a request with a page size, 0 included, selects the first page size
\* rooms of the direction slice of its ranking, and its chunk holds no more
\* rooms than the page size.
C16_TruncatedToPageSize ==
    \A k \in CallIds :
        (Done(k) /\ comp[k].limit # None) =>
            /\ comp[k].sorted_rooms =
                  SliceTo(DirectionSlice(comp[k].ranked, comp[k].next_batch),
                          comp[k].limit[1])
            /\ Len(comp[k].results.chunk) <= comp[k].limit[1]

\* C16 amended: a request with a page size of 1 or more selects the first
\* page size rooms of the direction slice of its ranking, and its chunk
\* holds no more rooms than the page size; a request with the page size 0
\* is served as one without page size: it selects the whole direction slice
\* and issues no cursor in its direction.
C16_TruncatedWhenPositive ==
    \A k \in CallIds :
        (Done(k) /\ comp[k].limit # None) =>
            LET sliced == DirectionSlice(comp[k].ranked, comp[k].next_batch)
                S == comp[k].limit[1]
            IN /\ S >= 1 =>
                     /\ comp[k].sorted_rooms = SliceTo(sliced, S)
                     /\ Len(comp[k].sorted_rooms) = Min(S, Len(sliced))
                     /\ Len(comp[k].results.chunk) <= S
               /\ S = 0 =>
                     /\ comp[k].sorted_rooms = sliced
                     /\ comp[k].new_limit = None
                     /\ IsForward(k) => comp[k].results.next_batch = None
                     /\ ~IsForward(k) => comp[k].results.prev_batch = None

\* A request with a page size of 2 has returned 2 rooms of a direction slice
\* of 3.
C16_Witness ==
    \E k \in CallIds :
        /\ Done(k) /\ comp[k].limit = <<2>>
        /\ Len(DirectionSlice(comp[k].ranked, comp[k].next_batch)) = 3
        /\ Len(comp[k].sorted_rooms) = 2
        /\ Len(comp[k].results.chunk) = 2

\* The requests of a traversal that have returned.
Returned == {k \in 1..ncalls : Done(k)}

\* C17: in a forward traversal with page size S over unchanged data, page k
\* selects the rooms ranked (k-1)S+1 .. min(N, kS) of the one ranking, no
\* page after the first is empty, the first is empty only when no room is
\* ranked, a next cursor is issued iff rooms remain, and once no next cursor
\* is issued every ranked room has been selected in exactly one page.
C17_ForwardTraversal ==
    (ncalls >= 1 /\ calls[1].token = None) =>
        LET S == calls[1].limit[1] IN
        /\ \A k \in Returned :
              LET N == Len(comp[k].ranked) IN
              /\ comp[k].ranked = comp[1].ranked
              /\ comp[k].sorted_rooms =
                    SubSeq(comp[k].ranked, (k - 1) * S + 1, Min(N, k * S))
              /\ k >= 2 => comp[k].sorted_rooms # <<>>
              /\ comp[k].sorted_rooms = <<>> => comp[k].ranked = <<>>
              /\ (comp[k].results.next_batch = None) <=> (k * S >= N)
        /\ (ncalls \in Returned /\ comp[ncalls].results.next_batch = None) =>
              /\ Returned = 1..ncalls
              /\ \A i \in 1..Len(comp[1].ranked) :
                    Cardinality({k \in Returned :
                        comp[1].ranked[i] \in Range(comp[k].sorted_rooms)}) = 1
              /\ \A k \in Returned :
                    Range(comp[k].sorted_rooms) \subseteq Range(comp[1].ranked)

\* A forward traversal of three ranked rooms has ended with its third page.
C17_Witness ==
    /\ ncalls = 3
    /\ calls[1].token = None
    /\ Returned = 1..3
    /\ Len(comp[1].ranked) = 3
    /\ comp[3].sorted_rooms # <<>>
    /\ comp[3].results.next_batch = None

\* The last request of the traversal has returned a page without a cursor
\* in the direction of the traversal.
Finished ==
    /\ ncalls >= 1
    /\ Done(ncalls)
    /\ TravelCursor = None

\* C19: with unchanged data, N ranked rooms and one page size S >= 1, a
\* traversal that follows each next cursor from the first page requests
\* offsets that grow by S each step and stay below N, a traversal that
\* follows each prev cursor from a backward cursor requests offsets that
\* shrink by S each step and stay above 0, and either traversal eventually
\* gets a page without a cursor in its direction.
C19_TraversalTerminates ==
    /\ [](\A k \in 2..ncalls :
            LET S == calls[1].limit[1]
                N == Len(comp[1].ranked)
            IN IF calls[1].token = None
               THEN /\ IsForward(k)
                    /\ Offset(k) = Offset(k - 1) + S
                    /\ Offset(k) < N
               ELSE /\ ~IsForward(k)
                    /\ Offset(k) = Offset(k - 1) - S
                    /\ Offset(k) > 0)
    /\ (ncalls >= 1) ~> Finished

\* A backward traversal from beyond the last of three ranked rooms has
\* ended with its fourth page.
C19_Witness ==
    /\ ncalls = 4
    /\ calls[1].token # None
    /\ Offset(1) = 4
    /\ Len(comp[1].ranked) = 3
    /\ Finished

\* C18: in a sequence of requests that starts without a cursor and goes on
\* with cursors of earlier responses, with page sizes of at least 1 or none
\* and N rooms ranked throughout, every cursor a response issues has an
\* offset in 1 .. N-1, and the backward offset of line 117 is at least 1, so
\* that max(0, ...) at line 118 returns it unchanged.
C18_OffsetsInside ==
    \A k \in CallIds :
        Done(k) =>
            LET N == Len(comp[k].ranked) IN
            /\ \A token \in IssuedCursors(k) :
                  /\ from_token(token).ok
                  /\ CursorOf(token).current_limit >= 1
                  /\ CursorOf(token).current_limit <= N - 1
            /\ (HasCursor(k) /\ ~IsForward(k) /\ comp[k].new_limit # None) =>
                  /\ Offset(k) - comp[k].limit[1] >= 1
                  /\ comp[k].new_limit = <<Offset(k) - comp[k].limit[1]>>

\* A request with a backward cursor that an earlier response issued has
\* returned a prev cursor, whose offset line 117 computed.
C18_Witness ==
    \E k \in CallIds :
        /\ k >= 3
        /\ Done(k)
        /\ HasCursor(k)
        /\ ~IsForward(k)
        /\ comp[k].new_limit # None
        /\ comp[k].results.prev_batch # None

\* The cursors of a response as cursors, None for one that is not issued.
IssuedCursor(token) == IF token = None THEN None ELSE <<CursorOf(token)>>

\* The rooms a request selected that are not in its chunk.
Dropped(k) == Range(comp[k].sorted_rooms) \ ChunkRooms(k)

\* C20: the cursors of a response are determined by the ranking, the cursor
\* of the request and the page size.  With N rooms ranked, offset O and page
\* size S, the cursor in the direction of the request is issued iff more
\* than S rooms lie in that direction, with offset O + S forward and O - S
\* backward; the cursor in the other direction is issued iff the request had
\* a cursor, with offset O.  Two requests with the same ranking, cursor and
\* page size issue cursors of the same offsets whatever rooms enrichment
\* dropped, and the chunk holds the selected rooms but the dropped ones.
C20_CursorsIgnoreEnrichment ==
    /\ \A k \in CallIds :
          (Done(k) /\ Truthy(comp[k].limit)) =>
              LET N == Len(comp[k].ranked)
                  O == Offset(k)
                  S == comp[k].limit[1]
                  res == comp[k].results
                  ahead == IF IsForward(k) THEN res.next_batch ELSE res.prev_batch
                  back == IF IsForward(k) THEN res.prev_batch ELSE res.next_batch
                  left == IF IsForward(k) THEN Max(0, N - O) ELSE Min(O, N)
              IN /\ (ahead # None) <=> (left > S)
                 /\ ahead # None =>
                       /\ CursorOf(ahead).current_limit =
                             IF IsForward(k) THEN O + S ELSE O - S
                       /\ CursorOf(ahead).direction_is_forward = IsForward(k)
                 /\ (back # None) <=> HasCursor(k)
                 /\ back # None =>
                       /\ CursorOf(back).current_limit = O
                       /\ CursorOf(back).direction_is_forward = ~IsForward(k)
                 /\ ChunkRooms(k) \subseteq Range(comp[k].sorted_rooms)
                 /\ Len(res.chunk) = Len(comp[k].sorted_rooms) - Cardinality(Dropped(k))
    /\ \A k1, k2 \in CallIds :
          (/\ Done(k1) /\ Done(k2)
           /\ comp[k1].ranked = comp[k2].ranked
           /\ comp[k1].next_batch = comp[k2].next_batch
           /\ comp[k1].limit = comp[k2].limit) =>
              LET c1 == IssuedCursor(comp[k1].results.next_batch)
                  c2 == IssuedCursor(comp[k2].results.next_batch)
                  d1 == IssuedCursor(comp[k1].results.prev_batch)
                  d2 == IssuedCursor(comp[k2].results.prev_batch)
              IN /\ (c1 = None) <=> (c2 = None)
                 /\ (d1 = None) <=> (d2 = None)
                 /\ c1 # None => c1[1].current_limit = c2[1].current_limit
                 /\ d1 # None => d1[1].current_limit = d2[1].current_limit

\* Two requests with the same ranking, cursor and page size: enrichment
\* dropped the one selected room of the first as not public, so that its
\* chunk is empty, and kept the room of the second; both issued the next
\* cursor with the offset advanced by the page size.
C20_Witness ==
    \E k1, k2 \in CallIds :
        /\ Done(k1) /\ Done(k2)
        /\ comp[k1].ranked = comp[k2].ranked
        /\ comp[k1].next_batch = comp[k2].next_batch
        /\ comp[k1].limit = comp[k2].limit
        /\ comp[k1].sorted_rooms # <<>>
        /\ comp[k1].results.chunk = <<>>
        /\ \E r \in Dropped(k1) : NotPublic(comp[k1].join_rules[r])
        /\ comp[k2].results.chunk # <<>>
        /\ comp[k1].results.next_batch # None
        /\ CursorOf(comp[k1].results.next_batch).current_limit =
              Offset(k1) + comp[k1].limit[1]
        /\ comp[k2].results.next_batch = comp[k1].results.next_batch
====
